---- MODULE Spec2Model ----
(***************************************************************************)
(* A model of csi-volume-recovery: the remediation controller (main), the  *)
(* CSI capability client, the PVC driver resolver and the kubernetes       *)
(* client with its owner-chain resolver, pod restart and scale "bounce".   *)
(*                                                                         *)
(* The cluster API server is modelled by what the calls made in the code   *)
(* observe of it: objects carry a resourceVersion, an Update whose object  *)
(* carries a stale resourceVersion is rejected with a Conflict, and any    *)
(* call may fail with a server error.                                      *)
(***************************************************************************)
EXTENDS Integers, Sequences, FiniteSets, TLC

VARIABLES
    conf,       \* the flags: [NodeName, Endpoint]
    mpc,        \* position of main
    exitCode,   \* process exit status: -1 while running
    ei,         \* index of the endpoint being registered
    drivers,    \* the registry: driver name -> endpoint of its CSI client
    probed,     \* registry keys the health-check pass has visited
    probe,      \* the health-check loop's locals: [name, healthy, err]
    pi,         \* index i into metrics.Pods
    vi,         \* index j into metrics.Pods[i].VolumeStats
    visited,    \* history: the (i, j) pairs the loop body has been entered for
    cur,        \* the loop body's locals: [driver]
    capCall,    \* a capability query on a client and its answer: [type, resp, ok, err]
    fnCall,     \* a call of a resolver on its own: its arguments and what it returned
    opCall,     \* the operator call just returned to main: [op, err]
    calls,      \* history: cluster calls main issued for the current (pod, volume) pair
    pods,       \* cluster: the pods that exist
    objs,       \* cluster: Deployments and StatefulSets, name -> [kind, spec, status, rv]
    writes,     \* number of writes by other clients so far
    b           \* per instance of the kubernetes client: locals of ScaleOwner

vars == <<conf, mpc, exitCode, ei, drivers, probed, probe, pi, vi, visited, cur,
          capCall, fnCall, opCall, calls, pods, objs, writes, b>>

----------------------------------------------------------------------------
(* Bounds of the model. *)

\* Largest desired replica count a controller starts with.
MaxReplicas == 2
\* Checks the quiesce poll makes before its timeout elapses (timeout / interval).
MaxPolls == 2
\* Longest capability list a driver returns.
MaxCaps == 2
\* Longest owner reference list of a pod.
MaxRefs == 2
\* Writes other clients make to a controller object during the run.
MaxWrites == 1

\* retry.DefaultRetry.Steps: calls of the retried function at most.
RetrySteps == 5

----------------------------------------------------------------------------
(* Errors. A Go error is the chain of its messages, outermost first;       *)
(* fmt.Errorf("msg: %w", err) puts msg in front of err's chain, and        *)
(* wrapping a nil err leaves msg alone. nil is the empty chain.            *)

NilErr == <<>>

Wrap(msg, err) == <<msg>> \o err

ErrConflict == <<"Conflict">>
ErrServer == <<"ServerError">>
ErrNotFound == <<"NotFound">>
ErrTimeout == <<"context deadline exceeded">>
ErrRPC == <<"rpc error">>

\* apierrors.IsConflict: errors.As finds the status error anywhere in the chain.
IsConflict(err) == \E k \in 1..Len(err) : err[k] = "Conflict"

----------------------------------------------------------------------------
(* The node and the cluster the controller runs against. *)

Nil == "<nil>"

\* The endpoints of the flag, and the plugin that answers on each.
EndpointA == "/csi/a.sock"
EndpointB == "/csi/b.sock"

\* An endpoint address is a string of the flag: a sequence of tokens.
PluginName(endpoint) ==
    CASE endpoint = <<EndpointA>> -> "csi.example.com"
      [] endpoint = <<EndpointB>> -> "nfs.csi"
      [] OTHER -> ""

\* The kubelet summary: pods in order, each with its volume stats' PVC references.
Metrics ==
    << [name |-> "web",   volumes |-> <<"data1", Nil, "data5">>],
       [name |-> "db",    volumes |-> <<"data2">>],
       [name |-> "solo",  volumes |-> <<"data3">>],
       [name |-> "agent", volumes |-> <<"data4", "data1">>],
       [name |-> "task",  volumes |-> <<"data7">>] >>

\* PersistentVolumeClaims: the two provisioner annotations and the bound volume.
PVCs ==
    [ data1 |-> [beta |-> "", ga |-> "csi.example.com", volumeName |-> "pv1"],
      data2 |-> [beta |-> "", ga |-> "", volumeName |-> "pv2"],
      data3 |-> [beta |-> "nfs.csi", ga |-> "csi.example.com", volumeName |-> "pv3"],
      data4 |-> [beta |-> "", ga |-> "", volumeName |-> "pv4"],
      data5 |-> [beta |-> "", ga |-> "other.csi", volumeName |-> "pv5"],
      data6 |-> [beta |-> "nfs.csi", ga |-> "", volumeName |-> "pv6"],
      data7 |-> [beta |-> "nfs.csi", ga |-> "nfs.csi", volumeName |-> "pv7"] ]

\* PersistentVolumes: the CSI source's driver, Nil without a CSI source.
PVs ==
    [ pv1 |-> [csi |-> "csi.example.com"],
      pv2 |-> [csi |-> "csi.example.com"],
      pv3 |-> [csi |-> "nfs.csi"],
      pv4 |-> [csi |-> Nil],
      pv5 |-> [csi |-> "other.csi"],
      pv6 |-> [csi |-> Nil],
      pv7 |-> [csi |-> "csi.example.com"] ]

Ref(kind, name) == [Kind |-> kind, Name |-> name]

\* pod.OwnerReferences
PodOwnerRefs ==
    [ web   |-> <<Ref("ReplicaSet", "rs1"), Ref("Job", "batch")>>,
      db    |-> <<Ref("StatefulSet", "db")>>,
      solo  |-> <<>>,
      agent |-> <<Ref("DaemonSet", "ds")>>,
      task  |-> <<Ref("ReplicaSet", "rs3")>> ]

\* rs.OwnerReferences
RSOwnerRefs ==
    [ rs1 |-> <<Ref("Deployment", "app1")>>,
      rs2 |-> <<>>,
      rs3 |-> <<Ref("Rollout", "canary"), Ref("Deployment", "app1")>>,
      rs4 |-> <<Ref("ReplicaSet", "rs1")>> ]

ReplicaSets == DOMAIN RSOwnerRefs

PodNames == DOMAIN PodOwnerRefs

\* The scalable controllers of the cluster and their kinds.
OwnerKind == [ app1 |-> "Deployment", db |-> "StatefulSet" ]

OwnerNames == DOMAIN OwnerKind

\* The kubernetes clients that call ScaleOwner: the one main creates, and
\* the one of the controller instance of another node.
Instances == {"ctl", "peer"}

----------------------------------------------------------------------------
(* Strings of the flags are sequences of tokens: "," or a run of other     *)
(* characters. *)

Comma == ","

\* strings.Split(s, ","): the pieces of s between the separators; a string
\* without separator, the empty one included, is its own single piece.
RECURSIVE SplitFrom(_, _, _)
SplitFrom(s, k, piece) ==
    IF k > Len(s) THEN <<piece>>
    ELSE IF s[k] = Comma THEN <<piece>> \o SplitFrom(s, k + 1, <<>>)
    ELSE SplitFrom(s, k + 1, Append(piece, s[k]))

Split(s) == SplitFrom(s, 1, <<>>)

\* The flag values the model starts from.
NodeNames == {<<>>, <<"minikube">>}
EndpointFlags == {<<>>, <<EndpointA, Comma, EndpointB>>}

----------------------------------------------------------------------------
(* internal/csi: the capability client. *)

CapStageUnstage == "STAGE_UNSTAGE_VOLUME"
CapVolumeCondition == "VOLUME_CONDITION"
CapTypes == {CapStageUnstage, CapVolumeCondition, "GET_VOLUME_STATS"}

\* A *NodeServiceCapability of the response: a nil pointer, an entry whose
\* Rpc is nil, or an entry with an RPC type.
CapEntries ==
    {[isNil |-> TRUE, rpc |-> Nil], [isNil |-> FALSE, rpc |-> Nil]}
        \cup {[isNil |-> FALSE, rpc |-> t] : t \in CapTypes}

RECURSIVE SeqsUpTo(_, _)
SeqsUpTo(S, n) ==
    IF n = 0 THEN {<<>>}
    ELSE LET shorter == SeqsUpTo(S, n - 1)
         IN  shorter \cup {Append(q, x) : q \in shorter, x \in S}

\* What NodeGetCapabilities can answer: an rpc error, or a capability list.
CapResponses ==
    {[err |-> ErrRPC, caps |-> <<>>]}
        \cup {[err |-> NilErr, caps |-> q] : q \in SeqsUpTo(CapEntries, MaxCaps)}

\* The loop with `break` in place of `continue`: it stops at the first
\* nil or malformed entry.
RECURSIVE capabilityLoopBreaking(_, _, _)
capabilityLoopBreaking(capabilities, k, capabilityType) ==
    IF k > Len(capabilities) THEN FALSE
    ELSE IF capabilities[k].isNil \/ capabilities[k].rpc = Nil THEN FALSE
    ELSE IF capabilities[k].rpc = capabilityType THEN TRUE
    ELSE capabilityLoopBreaking(capabilities, k + 1, capabilityType)

\* The for loop of nodeSupportsCapability from entry k on.
RECURSIVE capabilityLoop(_, _, _)
capabilityLoop(capabilities, k, capabilityType) ==
    IF k > Len(capabilities) THEN FALSE
    ELSE IF capabilities[k].isNil \/ capabilities[k].rpc = Nil
         THEN capabilityLoop(capabilities, k + 1, capabilityType)
    ELSE IF capabilities[k].rpc = capabilityType THEN TRUE
    ELSE capabilityLoop(capabilities, k + 1, capabilityType)

nodeSupportsCapability(resp, capabilityType) ==
    IF resp.err # NilErr THEN [ok |-> FALSE, err |-> resp.err]
    ELSE [ok |-> capabilityLoop(resp.caps, 1, capabilityType), err |-> NilErr]

NodeSupportsVolumeCondition(resp) == nodeSupportsCapability(resp, CapVolumeCondition)

NodeSupportsStageUnstage(resp) == nodeSupportsCapability(resp, CapStageUnstage)

\* What GetPluginInfo can answer on an endpoint: an rpc error, a nil
\* response, a response whose Name is empty, or the plugin's name. Nobody
\* answers on an unknown endpoint.
IdentityResponses(endpoint) ==
    {[err |-> ErrRPC, isNil |-> FALSE, name |-> ""]}
        \cup (IF PluginName(endpoint) = "" THEN {}
              ELSE {[err |-> NilErr, isNil |-> TRUE, name |-> ""],
                    [err |-> NilErr, isNil |-> FALSE, name |-> ""],
                    [err |-> NilErr, isNil |-> FALSE, name |-> PluginName(endpoint)]})

\* client.GetDriverName of internal/csi
csiGetDriverName(resp) ==
    IF resp.err # NilErr THEN [name |-> "", err |-> resp.err]
    ELSE IF resp.isNil THEN [name |-> "", err |-> <<"response is nil">>]
    ELSE [name |-> resp.name, err |-> NilErr]

\* What Probe can answer: an rpc error, a nil response, a response
\* without the Ready field, or one with it.
ProbeResponses ==
    {[err |-> ErrRPC, isNil |-> FALSE, ready |-> Nil],
     [err |-> NilErr, isNil |-> TRUE, ready |-> Nil],
     [err |-> NilErr, isNil |-> FALSE, ready |-> Nil],
     [err |-> NilErr, isNil |-> FALSE, ready |-> "false"],
     [err |-> NilErr, isNil |-> FALSE, ready |-> "true"]}

\* client.IsHealthy; resp.Ready.Value on a nil Ready panics.
IsHealthy(resp) ==
    IF resp.err # NilErr THEN [healthy |-> FALSE, err |-> resp.err, panic |-> FALSE]
    ELSE IF resp.isNil
    THEN [healthy |-> FALSE, err |-> <<"response is nil">>, panic |-> FALSE]
    ELSE IF resp.ready = Nil THEN [healthy |-> FALSE, err |-> NilErr, panic |-> TRUE]
    ELSE [healthy |-> resp.ready = "true", err |-> NilErr, panic |-> FALSE]

----------------------------------------------------------------------------
(* internal/volume: the cluster-metadata driver resolver. *)

\* kubeclient.GetDriverName; pvcOk and pvOk say whether the API server
\* answers the two reads.
GetDriverName(pvcName, pvcOk, pvOk) ==
    IF ~pvcOk
    THEN [driver |-> "", err |-> Wrap("failed to get PVC", Wrap("failed to get PVC", ErrServer))]
    ELSE LET pvc == PVCs[pvcName] IN
         IF pvc.beta # "" THEN [driver |-> pvc.beta, err |-> NilErr]
         ELSE IF pvc.ga # "" THEN [driver |-> pvc.ga, err |-> NilErr]
         ELSE IF ~pvOk
         THEN [driver |-> "", err |-> Wrap("failed to get PV", Wrap("failed to get PV", ErrServer))]
         ELSE IF PVs[pvc.volumeName].csi = Nil
         THEN [driver |-> "", err |-> <<"PV is not a CSI volume">>]
         ELSE [driver |-> PVs[pvc.volumeName].csi, err |-> NilErr]

----------------------------------------------------------------------------
(* internal/kubernetes: owner chain. *)

\* The function taking the last owner reference instead of the first.
RECURSIVE findTopOwnerLastRef(_, _)
findTopOwnerLastRef(ownerRefs, avail) ==
    IF Len(ownerRefs) = 0 THEN [name |-> "", kind |-> "", err |-> NilErr]
    ELSE LET ownerRef == ownerRefs[Len(ownerRefs)] IN
         IF ownerRef.Kind = "ReplicaSet"
         THEN IF ownerRef.Name \notin avail
              THEN [name |-> "", kind |-> "", err |-> ErrNotFound]
              ELSE findTopOwnerLastRef(RSOwnerRefs[ownerRef.Name], avail)
         ELSE [name |-> ownerRef.Name, kind |-> ownerRef.Kind, err |-> NilErr]

\* findTopOwner; avail is the set of ReplicaSets the API server returns.
RECURSIVE findTopOwner(_, _)
findTopOwner(ownerRefs, avail) ==
    IF Len(ownerRefs) = 0 THEN [name |-> "", kind |-> "", err |-> NilErr]
    ELSE LET ownerRef == ownerRefs[1] IN
         IF ownerRef.Kind = "ReplicaSet"
         THEN IF ownerRef.Name \notin avail
              THEN [name |-> "", kind |-> "", err |-> ErrNotFound]
              ELSE findTopOwner(RSOwnerRefs[ownerRef.Name], avail)
         ELSE [name |-> ownerRef.Name, kind |-> ownerRef.Kind, err |-> NilErr]

----------------------------------------------------------------------------
(* The API server's answers to the calls on Deployments and StatefulSets. *)

\* Get of a controller: the object with its resourceVersion.
\* Update(obj): a server error when the call fails, a Conflict when obj
\* carries another resourceVersion than the stored object, else applied.
UpdateErr(owner, rv, callOk) ==
    IF ~callOk THEN ErrServer
    ELSE IF rv # objs[owner].rv THEN ErrConflict
    ELSE NilErr

\* The stored objects after that Update; a write that changes nothing
\* leaves the resourceVersion alone.
Updated(owner, replicas, err) ==
    IF err # NilErr \/ objs[owner].spec = replicas THEN objs
    ELSE [objs EXCEPT ![owner].spec = replicas, ![owner].rv = @ + 1]

\* An entry of the call history: the call (update, delete) or observation
\* (quiesced), the step of the scaling function that made it, the object,
\* the replica count sent, and the error the call returned.
Call(op, step, target, value, err) ==
    [op |-> op, step |-> step, target |-> target, value |-> value, err |-> err]

----------------------------------------------------------------------------
(* Initial state: the process starts; the cluster is at rest, its          *)
(* controllers at a same replica count.                                    *)

NoCapCall == [type |-> "", resp |-> [err |-> NilErr, caps |-> <<>>], ok |-> FALSE, err |-> NilErr]
NoOpCall == [op |-> "", err |-> NilErr]
NoFnCall == [fn |-> ""]
NoProbe == [name |-> "", healthy |-> FALSE, err |-> NilErr]
NoCur == [driver |-> "", volcond |-> "", stage |-> ""]

\* The locals of a kubernetes client that is not inside ScaleOwner. Two
\* fields are history: before, the desired replica count when ScaleOwner
\* was entered, and waitErr, what the last waitForReplicasToBeZero returned.
Idle ==
    [pc |-> "idle", name |-> "", kind |-> "", count |-> 0, attempt |-> 0,
     spec |-> 0, rv |-> 0, originalReplicas |-> 0, polls |-> 0,
     err |-> NilErr, ret |-> NilErr, before |-> 0, waitErr |-> NilErr]

Init ==
    /\ conf \in [NodeName : NodeNames, Endpoint : EndpointFlags]
    /\ mpc = "start"
    /\ exitCode = -1
    /\ ei = 1
    /\ drivers = [n \in {} |-> <<>>]
    /\ probed = {}
    /\ probe = NoProbe
    /\ pi = 1
    /\ vi = 1
    /\ visited = <<>>
    /\ cur = NoCur
    /\ capCall = NoCapCall
    /\ fnCall = NoFnCall
    /\ opCall = NoOpCall
    /\ calls = <<>>
    /\ pods = PodNames
    /\ objs \in {[owner \in OwnerNames |-> [spec |-> n, status |-> n, rv |-> 1]] :
                    n \in 0..MaxReplicas}
    /\ writes = 0
    /\ b = [r \in Instances |-> Idle]

----------------------------------------------------------------------------
(* main: startup. *)

clusterVars == <<pods, objs, writes, b>>
loopVars == <<pi, vi, visited, cur, capCall, fnCall, opCall, calls>>

\* logAndExit
logAndExit ==
    /\ mpc' = "exited"
    /\ exitCode' = 1

\* main, lines 48-51: the node name is required.
CheckNodeName ==
    /\ mpc = "start"
    /\ IF conf.NodeName = <<>> THEN logAndExit
       ELSE mpc' = "newclient" /\ UNCHANGED exitCode
    /\ UNCHANGED <<conf, ei, drivers, probed, probe, loopVars, clusterVars>>

\* main, lines 52-55: kubernetes.NewClient.
NewKubeClient ==
    /\ mpc = "newclient"
    /\ \E ok \in BOOLEAN :
          IF ~ok THEN logAndExit
          ELSE mpc' = "metrics" /\ UNCHANGED exitCode
    /\ UNCHANGED <<conf, ei, drivers, probed, probe, loopVars, clusterVars>>

\* main, lines 57-61: kubeClient.GetMetrics.
GetMetrics ==
    /\ mpc = "metrics"
    /\ \E ok \in BOOLEAN :
          IF ~ok THEN logAndExit
          ELSE mpc' = "endpoints" /\ UNCHANGED exitCode
    /\ UNCHANGED <<conf, ei, drivers, probed, probe, loopVars, clusterVars>>

\* main, line 63
endpoints == Split(conf.Endpoint)

\* main, lines 63-67: split the flag, refuse an empty list, make the registry.
SplitEndpoints ==
    /\ mpc = "endpoints"
    /\ IF Len(endpoints) = 0 THEN logAndExit /\ UNCHANGED <<ei, drivers>>
       ELSE /\ mpc' = "register"
            /\ ei' = 1
            /\ drivers' = [n \in {} |-> <<>>]
            /\ UNCHANGED exitCode
    /\ UNCHANGED <<conf, probed, probe, loopVars, clusterVars>>

\* The loop going on to the next endpoint when one fails.
RegisterDriverSkipping ==
    /\ mpc = "register"
    /\ ei <= Len(endpoints)
    /\ \E newOk \in BOOLEAN, resp \in IdentityResponses(endpoints[ei]) :
          LET got == csiGetDriverName(resp) IN
          /\ drivers' = IF ~newOk \/ got.err # NilErr THEN drivers
                        ELSE (got.name :> endpoints[ei]) @@ drivers
          /\ ei' = ei + 1
          /\ mpc' = IF ei = Len(endpoints) THEN "health" ELSE "register"
          /\ UNCHANGED exitCode
    /\ UNCHANGED <<conf, probed, probe, loopVars, clusterVars>>

\* main, lines 68-79: one iteration of the registration loop. newOk says
\* whether csi.NewClient succeeds, resp is the plugin's identity answer.
RegisterDriver ==
    /\ mpc = "register"
    /\ ei <= Len(endpoints)
    /\ \E newOk \in BOOLEAN, resp \in IdentityResponses(endpoints[ei]) :
          LET got == csiGetDriverName(resp) IN
          IF ~newOk \/ got.err # NilErr
          THEN logAndExit /\ UNCHANGED <<ei, drivers>>
          ELSE /\ drivers' = (got.name :> endpoints[ei]) @@ drivers
               /\ ei' = ei + 1
               /\ mpc' = IF ei = Len(endpoints) THEN "health" ELSE "register"
               /\ UNCHANGED exitCode
    /\ UNCHANGED <<conf, probed, probe, loopVars, clusterVars>>

\* main, lines 80-81: the health-check loop calls IsHealthy on a driver the
\* range has not yet visited. A response without the Ready field makes
\* IsHealthy dereference nil: the process panics.
HealthCheck ==
    /\ mpc = "health"
    /\ \E name \in DOMAIN drivers \ probed :
          \E resp \in ProbeResponses :
             LET ans == IsHealthy(resp) IN
             IF ans.panic
             THEN /\ mpc' = "exited"
                  /\ exitCode' = 2
                  /\ UNCHANGED probe
             ELSE /\ mpc' = "probed"
                  /\ probe' = [name |-> name, healthy |-> ans.healthy, err |-> ans.err]
                  /\ UNCHANGED exitCode
    /\ UNCHANGED <<conf, ei, drivers, probed, loopVars, clusterVars>>

\* The loop taking a driver that is not healthy out of the registry.
HealthContinueDropping ==
    /\ mpc = "probed"
    /\ probed' = probed \cup {probe.name}
    /\ drivers' = IF probe.err # NilErr \/ ~probe.healthy
                  THEN [n \in DOMAIN drivers \ {probe.name} |-> drivers[n]]
                  ELSE drivers
    /\ probe' = NoProbe
    /\ mpc' = IF probed' \cap DOMAIN drivers' = DOMAIN drivers' THEN "loop" ELSE "health"
    /\ UNCHANGED <<conf, exitCode, ei, loopVars, clusterVars>>

\* main, lines 82-90: an error and an unhealthy answer are logged, and the
\* loop goes on to the next driver; after the last one its locals are gone.
HealthContinue ==
    /\ mpc = "probed"
    /\ probed' = probed \cup {probe.name}
    /\ probe' = NoProbe
    /\ mpc' = IF probed' = DOMAIN drivers THEN "loop" ELSE "health"
    /\ UNCHANGED <<conf, exitCode, ei, drivers, loopVars, clusterVars>>

----------------------------------------------------------------------------
(* main: the remediation loop. *)

startVars == <<conf, exitCode, ei, drivers, probed, probe>>

podName == Metrics[pi].name
pvcRef == Metrics[pi].volumes[vi]

\* The inner loop stepping over a volume.
NextVolumeSkipping ==
    /\ vi' = vi + 2
    /\ mpc' = "loop"

\* `continue`, or the end of the loop body: on to the next volume.
NextVolume ==
    /\ vi' = vi + 1
    /\ mpc' = "loop"

\* main, lines 94 and 97: the range loops' bookkeeping when the volumes of
\* a pod, or the pods, are exhausted; falling out of the outer loop main
\* returns.
PodLoop ==
    /\ mpc = "loop"
    /\ IF pi > Len(Metrics)
       THEN mpc' = "done" /\ exitCode' = 0 /\ UNCHANGED <<pi, vi>>
       ELSE /\ vi > Len(Metrics[pi].volumes)
            /\ pi' = pi + 1
            /\ vi' = 1
            /\ UNCHANGED <<mpc, exitCode>>
    /\ UNCHANGED <<conf, ei, drivers, probed, probe, visited, cur, capCall, fnCall, opCall,
                   calls, clusterVars>>

\* main, lines 103-111: where the body goes after the resolver answered.
ResolveBranch(got) ==
    IF got.err # NilErr THEN "loop"
    ELSE IF got.driver \notin DOMAIN drivers THEN "loop"
    ELSE "volcond"

\* main, lines 113-120: where the body goes after the volume-condition query.
VolumeConditionBranch(ans) ==
    IF ans.err # NilErr THEN "loop"
    ELSE IF ~ans.ok THEN "loop"
    ELSE "stage"

\* The branch with the two operators exchanged.
StageUnstageBranchSwapped(ans) ==
    IF ans.err # NilErr THEN "loop"
    ELSE IF ~ans.ok THEN "scale"
    ELSE "restart"

\* The branch without the `continue` after a failed query.
StageUnstageBranchNoContinue(ans) ==
    IF ~ans.ok THEN "restart"
    ELSE "scale"

\* main, lines 122-136: where the body goes after the stage/unstage query.
StageUnstageBranch(ans) ==
    IF ans.err # NilErr THEN "loop"
    ELSE IF ~ans.ok THEN "restart"
    ELSE "scale"

\* Go to position pc of the body; "loop" is `continue`.
Goto(pc) ==
    IF pc = "loop" THEN NextVolume
    ELSE mpc' = pc /\ UNCHANGED vi

\* main, lines 98-111: the loop body up to the registry lookup. pvcOk and
\* pvOk say whether the API server answers the resolver's reads.
VisitVolume ==
    /\ mpc = "loop"
    /\ pi <= Len(Metrics)
    /\ vi <= Len(Metrics[pi].volumes)
    /\ visited' = Append(visited, <<pi, vi>>)
    /\ calls' = <<>>
    /\ opCall' = NoOpCall
    /\ IF pvcRef = Nil
       THEN /\ cur' = NoCur
            /\ NextVolume
       ELSE \E pvcOk \in BOOLEAN, pvOk \in BOOLEAN :
               LET got == GetDriverName(pvcRef, pvcOk, pvOk) IN
               /\ cur' = [NoCur EXCEPT !.driver = got.driver]
               /\ Goto(ResolveBranch(got))
    /\ UNCHANGED <<startVars, pi, capCall, fnCall, clusterVars>>

Flag(ans) == IF ans.err # NilErr THEN "error" ELSE IF ans.ok THEN "true" ELSE "false"

\* main, lines 112-120: the volume-condition query on the driver's client.
QueryVolumeCondition ==
    /\ mpc = "volcond"
    /\ \E resp \in CapResponses :
          LET ans == NodeSupportsVolumeCondition(resp) IN
          /\ cur' = [cur EXCEPT !.volcond = Flag(ans)]
          /\ Goto(VolumeConditionBranch(ans))
    /\ UNCHANGED <<startVars, pi, visited, capCall, fnCall, opCall, calls, clusterVars>>

\* main, lines 121-128 and 134-135: the stage/unstage query and the choice
\* of the operator.
QueryStageUnstage ==
    /\ mpc = "stage"
    /\ \E resp \in CapResponses :
          LET ans == NodeSupportsStageUnstage(resp) IN
          /\ cur' = [cur EXCEPT !.stage = Flag(ans)]
          /\ Goto(StageUnstageBranch(ans))
    /\ UNCHANGED <<startVars, pi, visited, capCall, fnCall, opCall, calls, clusterVars>>

\* RestartPod without the check of the owner's name.
RestartPodResultNoOwnerCheck(pod, podOk, avail, delOk) ==
    IF ~podOk \/ pod \notin pods
    THEN [err |-> Wrap("failed to get pod",
                       IF pod \notin pods THEN ErrNotFound ELSE ErrServer),
          delete |-> FALSE]
    ELSE LET top == findTopOwner(PodOwnerRefs[pod], avail) IN
         IF top.err # NilErr
         THEN [err |-> Wrap("failed to find top owner", top.err), delete |-> FALSE]
         ELSE IF ~delOk
         THEN [err |-> Wrap("failed to delete pod", ErrServer), delete |-> TRUE]
         ELSE [err |-> NilErr, delete |-> TRUE]

\* RestartPod: what it returns and whether it reached the Delete. podOk and
\* delOk say whether the API server answers the Get and the Delete, avail
\* which ReplicaSets it returns.
RestartPodResult(pod, podOk, avail, delOk) ==
    IF ~podOk \/ pod \notin pods
    THEN [err |-> Wrap("failed to get pod",
                       IF pod \notin pods THEN ErrNotFound ELSE ErrServer),
          delete |-> FALSE]
    ELSE LET top == findTopOwner(PodOwnerRefs[pod], avail) IN
         IF top.err # NilErr
         THEN [err |-> Wrap("failed to find top owner", top.err), delete |-> FALSE]
         ELSE IF top.name = ""
         THEN [err |-> <<"no owner found">>, delete |-> FALSE]
         ELSE IF ~delOk
         THEN [err |-> Wrap("failed to delete pod", ErrServer), delete |-> TRUE]
         ELSE [err |-> NilErr, delete |-> TRUE]

\* main, lines 127-133: the driver has no stage/unstage, RestartPod is
\* called and its error logged.
RestartPod ==
    /\ mpc = "restart"
    /\ \E podOk \in BOOLEAN, avail \in SUBSET ReplicaSets, delOk \in BOOLEAN :
          LET res == RestartPodResult(podName, podOk, avail, delOk) IN
          /\ opCall' = [op |-> "RestartPod", err |-> res.err]
          /\ calls' = IF res.delete
                      THEN Append(calls, Call("delete", "", podName, 0, res.err))
                      ELSE calls
          /\ pods' = IF res.delete /\ res.err = NilErr THEN pods \ {podName} ELSE pods
    /\ NextVolume
    /\ UNCHANGED <<startVars, pi, visited, cur, capCall, fnCall, objs, writes, b>>

\* ScaleOwner, lines 154-173: fetch the pod, find its top owner, choose
\* the scaling function by its kind. The error it returns at once, or nil
\* when it goes on into a scaling function.
ScaleOwnerEntry(pod, podOk, avail) ==
    IF ~podOk \/ pod \notin pods
    THEN [err |-> Wrap("failed to get pod",
                       IF pod \notin pods THEN ErrNotFound ELSE ErrServer),
          name |-> "", kind |-> ""]
    ELSE LET top == findTopOwner(PodOwnerRefs[pod], avail) IN
         IF top.err # NilErr
         THEN [err |-> Wrap("failed to find top owner", top.err), name |-> "", kind |-> ""]
         ELSE IF top.kind \in {"Deployment", "StatefulSet"}
         THEN [err |-> NilErr, name |-> top.name, kind |-> top.kind]
         ELSE [err |-> <<"unsupported owner kind", top.kind>>, name |-> "", kind |-> ""]

\* The locals of instance r as RetryOnConflict first calls the function.
Entered(name, kind, count) ==
    [Idle EXCEPT !.pc = "get", !.name = name, !.kind = kind, !.count = count,
                 !.attempt = 1, !.before = objs[name].spec]

\* The call of a ScaleOwner that returns nil for a kind it does not scale.
ScaleOwnerSwallowing ==
    /\ mpc = "scale"
    /\ \E podOk \in BOOLEAN, avail \in SUBSET ReplicaSets :
          LET res == ScaleOwnerEntry(podName, podOk, avail) IN
          IF res.err # NilErr
          THEN /\ opCall' = [op |-> "ScaleOwner",
                             err |-> IF res.err[1] = "unsupported owner kind"
                                     THEN NilErr ELSE res.err]
               /\ NextVolume
               /\ UNCHANGED b
          ELSE /\ b' = [b EXCEPT !["ctl"] = Entered(res.name, res.kind, 0)]
               /\ mpc' = "scaling"
               /\ UNCHANGED <<opCall, vi>>
    /\ UNCHANGED <<startVars, pi, visited, cur, capCall, fnCall, calls, pods, objs, writes>>

\* main, lines 134-136: the driver has stage/unstage, ScaleOwner is called
\* with 0.
ScaleOwner ==
    /\ mpc = "scale"
    /\ \E podOk \in BOOLEAN, avail \in SUBSET ReplicaSets :
          LET res == ScaleOwnerEntry(podName, podOk, avail) IN
          IF res.err # NilErr
          THEN /\ opCall' = [op |-> "ScaleOwner", err |-> res.err]
               /\ NextVolume
               /\ UNCHANGED b
          ELSE /\ b' = [b EXCEPT !["ctl"] = Entered(res.name, res.kind, 0)]
               /\ mpc' = "scaling"
               /\ UNCHANGED <<opCall, vi>>
    /\ UNCHANGED <<startVars, pi, visited, cur, capCall, fnCall, calls, pods, objs, writes>>

\* main, lines 136-141: ScaleOwner has returned; its error is logged.
ScaleOwnerReturn ==
    /\ mpc = "scaling"
    /\ b["ctl"].pc = "return"
    /\ opCall' = [op |-> "ScaleOwner", err |-> b["ctl"].ret]
    /\ b' = [b EXCEPT !["ctl"] = Idle]
    /\ NextVolume
    /\ UNCHANGED <<startVars, pi, visited, cur, capCall, fnCall, calls, pods, objs, writes>>

----------------------------------------------------------------------------
(* internal/kubernetes: scaleDeployment and scaleStateFulSet, the function *)
(* retried by retry.RetryOnConflict, one action per call it makes on the   *)
(* API server. The two differ in the messages of their errors and in the   *)
(* kind they hand to waitForReplicasToBeZero.                              *)

mainVars == <<conf, mpc, exitCode, ei, drivers, probed, probe, pi, vi, visited, cur,
              capCall, fnCall, opCall, pods, writes>>

\* The process instance r runs in is alive: a scaling function of main's
\* client takes no step once main's process has exited.
Alive(r) == r = "ctl" => mpc # "exited"

\* The history after instance r made call c: it is the history of the
\* calls of this process, those of main's client.
Issued(r, c) == IF r = "ctl" THEN Append(calls, c) ELSE calls

\* retry.OnError around the function: the function has returned err on
\* the locals l. nil and any error that is no conflict end the retry; a
\* conflict calls the function again unless the steps are used up, and
\* then the last conflict error is returned.
FnReturn(l, err) ==
    IF err # NilErr /\ IsConflict(err) /\ l.attempt < RetrySteps
    THEN [l EXCEPT !.pc = "get", !.attempt = @ + 1]
    ELSE [l EXCEPT !.pc = "return", !.ret = err]

\* client.go lines 180-191 and 221-232: Get the object, save the original
\* replica count, set the count on the local object.
BounceGet(r) ==
    /\ b[r].pc = "get"
    /\ Alive(r)
    /\ \E ok \in BOOLEAN :
          LET l == b[r] IN
          IF ~ok THEN b' = [b EXCEPT ![r] = FnReturn(l, ErrServer)]
          ELSE b' = [b EXCEPT ![r] =
                  [l EXCEPT !.spec = l.count,
                            !.rv = objs[l.name].rv,
                            !.originalReplicas =
                                IF l.count # 0 THEN l.count ELSE objs[l.name].spec,
                            !.polls = 0,
                            !.err = NilErr,
                            !.waitErr = NilErr,
                            !.pc = IF l.count = 0 THEN "scaledown" ELSE "restore"]]
    /\ UNCHANGED <<mainVars, calls, objs>>

\* client.go lines 193-196 and 235-238: Update with the count; the object
\* the Update returns is dropped, the local one keeps its resourceVersion.
BounceScaleDown(r) ==
    /\ b[r].pc = "scaledown"
    /\ Alive(r)
    /\ \E ok \in BOOLEAN :
          LET l == b[r]
              err == UpdateErr(l.name, l.rv, ok)
          IN  /\ calls' = Issued(r, Call("update", "scaledown", l.name, l.spec, err))
              /\ objs' = Updated(l.name, l.spec, err)
              /\ b' = [b EXCEPT ![r] =
                        IF err # NilErr THEN FnReturn(l, err)
                        ELSE [l EXCEPT !.pc = "wait"]]
    /\ UNCHANGED mainVars

\* The kind the scaling function of an owner kind hands to
\* waitForReplicasToBeZero (lines 197 and 239).
WaitKind(kind) == IF kind = "Deployment" THEN "Deployment" ELSE "StatefulSets"

\* checkReplicas; ok says whether the API server answers the Get.
checkReplicas(ownerName, kind, ok) ==
    IF kind \in {"Deployment", "StatefulSet"}
    THEN IF ~ok THEN [ready |-> FALSE, err |-> ErrServer]
         ELSE [ready |-> objs[ownerName].status = 0, err |-> NilErr]
    ELSE [ready |-> FALSE, err |-> <<"unsupported kind", kind>>]

\* A poll whose deadline starts over when it elapses, instead of ending
\* the wait.
BouncePollNoDeadline(r) ==
    /\ b[r].pc = "wait"
    /\ Alive(r)
    /\ \E ok \in BOOLEAN :
          LET l == b[r]
              chk == checkReplicas(l.name, WaitKind(l.kind), ok)
          IN  IF chk.err # NilErr
              THEN /\ b' = [b EXCEPT ![r] = [l EXCEPT !.err = chk.err, !.waitErr = chk.err,
                                                     !.pc = "revert"]]
                   /\ UNCHANGED calls
              ELSE IF chk.ready
              THEN /\ b' = [b EXCEPT ![r] = [l EXCEPT !.pc = "restore"]]
                   /\ calls' = Issued(r, Call("quiesced", "wait", l.name, 0, NilErr))
              ELSE /\ b' = [b EXCEPT ![r] =
                             IF l.polls + 1 >= MaxPolls
                             THEN [l EXCEPT !.polls = 0]
                             ELSE [l EXCEPT !.polls = @ + 1]]
                   /\ UNCHANGED calls
    /\ UNCHANGED <<mainVars, objs>>

\* waitForReplicasToBeZero: one check of the poll. The poll ends with the
\* check's error, with success at the first ready check, and with the
\* context's deadline error when the timeout elapses first.
BouncePoll(r) ==
    /\ b[r].pc = "wait"
    /\ Alive(r)
    /\ \E ok \in BOOLEAN :
          LET l == b[r]
              chk == checkReplicas(l.name, WaitKind(l.kind), ok)
          IN  IF chk.err # NilErr
              THEN /\ b' = [b EXCEPT ![r] = [l EXCEPT !.err = chk.err, !.waitErr = chk.err,
                                                     !.pc = "revert"]]
                   /\ UNCHANGED calls
              ELSE IF chk.ready
              THEN /\ b' = [b EXCEPT ![r] = [l EXCEPT !.pc = "restore"]]
                   /\ calls' = Issued(r, Call("quiesced", "wait", l.name, 0, NilErr))
              ELSE /\ b' = [b EXCEPT ![r] =
                             IF l.polls + 1 >= MaxPolls
                             THEN [l EXCEPT !.polls = @ + 1, !.err = ErrTimeout,
                                            !.waitErr = ErrTimeout, !.pc = "revert"]
                             ELSE [l EXCEPT !.polls = @ + 1]]
                   /\ UNCHANGED calls
    /\ UNCHANGED <<mainVars, objs>>

\* What the function returns after the revert Update: err is the variable
\* the wait's error was in, assigned again by the Update (lines 201-205).
RevertReturn(err) ==
    IF err # NilErr THEN Wrap("failed to revert changes", err)
    ELSE Wrap("failed to scale down", err)

\* client.go lines 198-206 and 240-248: the wait failed; put the saved
\* count on the local object, Update, return.
BounceRevert(r) ==
    /\ b[r].pc = "revert"
    /\ Alive(r)
    /\ \E ok \in BOOLEAN :
          LET l == [b[r] EXCEPT !.spec = b[r].originalReplicas]
              err == UpdateErr(l.name, l.rv, ok)
          IN  /\ calls' = Issued(r, Call("update", "revert", l.name, l.spec, err))
              /\ objs' = Updated(l.name, l.spec, err)
              /\ b' = [b EXCEPT ![r] =
                        FnReturn([l EXCEPT !.err = err], RevertReturn(err))]
    /\ UNCHANGED mainVars

\* What the function returns after the restore Update (lines 209-213).
RestoreReturn(err) ==
    IF err # NilErr THEN Wrap("failed to revert back the replicas", err)
    ELSE NilErr

\* client.go lines 208-213 and 250-255: the wait succeeded; put the saved
\* count on the local object, Update, return.
BounceRestore(r) ==
    /\ b[r].pc = "restore"
    /\ Alive(r)
    /\ \E ok \in BOOLEAN :
          LET l == [b[r] EXCEPT !.spec = b[r].originalReplicas]
              err == UpdateErr(l.name, l.rv, ok)
          IN  /\ calls' = Issued(r, Call("update", "restore", l.name, l.spec, err))
              /\ objs' = Updated(l.name, l.spec, err)
              /\ b' = [b EXCEPT ![r] =
                        FnReturn([l EXCEPT !.err = err], RestoreReturn(err))]
    /\ UNCHANGED mainVars

----------------------------------------------------------------------------
(* The rest of the cluster. *)

otherVars == <<conf, mpc, exitCode, ei, drivers, probed, probe, pi, vi, visited, cur,
               capCall, fnCall, opCall, calls, pods, b>>

\* The workload controller brings the observed replica count to the
\* desired one and writes it to the object's status.
Reconcile(owner) ==
    /\ objs[owner].status # objs[owner].spec
    /\ objs' = [objs EXCEPT ![owner].status = objs[owner].spec, ![owner].rv = @ + 1]
    /\ UNCHANGED <<otherVars, writes>>

\* The pod of the current pair is deleted by someone else between the
\* kubelet summary and the operator's Get of it.
PodGone ==
    /\ mpc \in {"restart", "scale"}
    /\ podName \in pods
    /\ pods' = pods \ {podName}
    /\ UNCHANGED <<conf, mpc, exitCode, ei, drivers, probed, probe, pi, vi, visited,
                   cur, capCall, fnCall, opCall, calls, objs, writes, b>>

\* Another client writes the object (a label, an annotation) while a
\* scaling function holds a copy of it.
OtherWrite(owner) ==
    /\ writes < MaxWrites
    /\ \E r \in Instances : b[r].name = owner /\ b[r].pc \notin {"idle", "return"}
    /\ objs' = [objs EXCEPT ![owner].rv = @ + 1]
    /\ writes' = writes + 1
    /\ UNCHANGED otherVars

----------------------------------------------------------------------------

Next ==
    \/ CheckNodeName
    \/ NewKubeClient
    \/ GetMetrics
    \/ SplitEndpoints
    \/ RegisterDriver
    \/ HealthCheck
    \/ HealthContinue
    \/ PodLoop
    \/ VisitVolume
    \/ QueryVolumeCondition
    \/ QueryStageUnstage
    \/ RestartPod
    \/ ScaleOwner
    \/ ScaleOwnerReturn
    \/ \E r \in Instances : BounceGet(r)
    \/ \E r \in Instances : BounceScaleDown(r)
    \/ \E r \in Instances : BouncePoll(r)
    \/ \E r \in Instances : BounceRevert(r)
    \/ \E r \in Instances : BounceRestore(r)
    \/ \E owner \in OwnerNames : Reconcile(owner)
    \/ \E owner \in OwnerNames : OtherWrite(owner)
    \/ PodGone

Spec == Init /\ [][Next]_vars

\* The steps of the process itself; the API server and the drivers answer
\* every call, so the single thread of main takes its next step.
Program ==
    \/ CheckNodeName
    \/ NewKubeClient
    \/ GetMetrics
    \/ SplitEndpoints
    \/ RegisterDriver
    \/ HealthCheck
    \/ HealthContinue
    \/ PodLoop
    \/ VisitVolume
    \/ QueryVolumeCondition
    \/ QueryStageUnstage
    \/ RestartPod
    \/ ScaleOwner
    \/ ScaleOwnerReturn
    \/ \E r \in Instances : BounceGet(r)
    \/ \E r \in Instances : BounceScaleDown(r)
    \/ \E r \in Instances : BouncePoll(r)
    \/ \E r \in Instances : BounceRevert(r)
    \/ \E r \in Instances : BounceRestore(r)

LiveSpec == Spec /\ WF_vars(Program)

----------------------------------------------------------------------------
(* The capability predicates on their own: a client is asked one of the    *)
(* two questions, and the driver answers with any response.                *)

CapabilityQuery ==
    /\ \E resp \in CapResponses, type \in {CapVolumeCondition, CapStageUnstage} :
          LET ans == IF type = CapVolumeCondition
                     THEN NodeSupportsVolumeCondition(resp)
                     ELSE NodeSupportsStageUnstage(resp)
          IN  capCall' = [type |-> type, resp |-> resp, ok |-> ans.ok, err |-> ans.err]
    /\ UNCHANGED <<conf, mpc, exitCode, ei, drivers, probed, probe, fnCall, pi, vi, visited, cur,
                   opCall, calls, pods, objs, writes, b>>

\* The registry main builds from the endpoints of the flag.
Registry == [n \in {PluginName(e) : e \in {<<EndpointA>>, <<EndpointB>>}} |->
                CHOOSE e \in {<<EndpointA>>, <<EndpointB>>} : PluginName(e) = n]

\* The process is in the loop body with the client of a registered driver.
InitCaps ==
    /\ conf = [NodeName |-> <<"minikube">>, Endpoint |-> <<EndpointA, Comma, EndpointB>>]
    /\ mpc = "volcond"
    /\ exitCode = -1
    /\ ei = 3
    /\ drivers = Registry
    /\ probed = DOMAIN Registry
    /\ probe = NoProbe
    /\ pi = 1
    /\ vi = 1
    /\ visited = << <<1, 1>> >>
    /\ cur \in {[NoCur EXCEPT !.driver = d] : d \in DOMAIN Registry}
    /\ capCall = NoCapCall
    /\ fnCall = NoFnCall
    /\ opCall = NoOpCall
    /\ calls = <<>>
    /\ pods = PodNames
    /\ objs = [owner \in OwnerNames |-> [spec |-> 1, status |-> 1, rv |-> 1]]
    /\ writes = 0
    /\ b = [r \in Instances |-> Idle]

NextCaps == CapabilityQuery

SpecCaps == InitCaps /\ [][NextCaps]_vars

----------------------------------------------------------------------------
(* The process is asked to shut down. main installs no signal handler and  *)
(* hands ScaleOwner no context of its own: SIGTERM ends the process where  *)
(* it stands, with whatever call it was in.                                *)

Shutdown ==
    /\ mpc \notin {"exited", "done"}
    /\ mpc' = "exited"
    /\ exitCode' = 143
    /\ UNCHANGED <<conf, ei, drivers, probed, probe, loopVars, clusterVars>>

NextShutdown ==
    \/ Next
    \/ Shutdown

SpecShutdown == Init /\ [][NextShutdown]_vars

----------------------------------------------------------------------------
(* Two controller instances, each on its node, bounce the Deployment their *)
(* pods share: main is inside ScaleOwner for pod web, and the instance of  *)
(* the other node calls ScaleOwner for a sibling pod at any moment.        *)

\* The Deployment the two pods belong to.
Shared == "app1"

\* ScaleOwner of the other instance: the sibling pod's chain ends in the
\* shared Deployment, and scaleDeployment is entered.
PeerScaleOwner ==
    /\ b["peer"].pc = "idle"
    /\ b' = [b EXCEPT !["peer"] = Entered(Shared, OwnerKind[Shared], 0)]
    /\ UNCHANGED <<mainVars, calls, objs>>

InitPeers ==
    /\ conf = [NodeName |-> <<"minikube">>, Endpoint |-> <<EndpointA, Comma, EndpointB>>]
    /\ mpc = "scaling"
    /\ exitCode = -1
    /\ ei = 3
    /\ drivers = Registry
    /\ probed = DOMAIN Registry
    /\ probe = NoProbe
    /\ pi = 1
    /\ vi = 1
    /\ visited = << <<1, 1>> >>
    /\ cur = [driver |-> "csi.example.com", volcond |-> "true", stage |-> "true"]
    /\ capCall = NoCapCall
    /\ fnCall = NoFnCall
    /\ opCall = NoOpCall
    /\ calls = <<>>
    /\ pods = PodNames
    /\ objs \in {[owner \in OwnerNames |-> [spec |-> n, status |-> n, rv |-> 1]] :
                    n \in 0..MaxReplicas}
    /\ writes = 0
    /\ b = [r \in Instances |->
               IF r = "ctl" THEN Entered(Shared, OwnerKind[Shared], 0) ELSE Idle]

NextPeers ==
    \/ PeerScaleOwner
    \/ \E r \in Instances : BounceGet(r)
    \/ \E r \in Instances : BounceScaleDown(r)
    \/ \E r \in Instances : BouncePoll(r)
    \/ \E r \in Instances : BounceRevert(r)
    \/ \E r \in Instances : BounceRestore(r)
    \/ Reconcile(Shared)
    \/ OtherWrite(Shared)

SpecPeers == InitPeers /\ [][NextPeers]_vars

----------------------------------------------------------------------------
(* The resolvers on their own, one call each: the loop body calls the     *)
(* driver resolver on a claim of the cluster, and the kubernetes client    *)
(* walks the owner chain of a reference list.                              *)

\* client.GetDriverName(ctx, podUUID, podName, pvcRef.Name, pvcRef.Namespace)
ResolverCall ==
    /\ fnCall = NoFnCall
    /\ \E pvcName \in DOMAIN PVCs, pvcOk \in BOOLEAN, pvOk \in BOOLEAN :
          LET got == GetDriverName(pvcName, pvcOk, pvOk) IN
          fnCall' = [fn |-> "GetDriverName", pvcName |-> pvcName, pvcOk |-> pvcOk,
                     pvOk |-> pvOk, driver |-> got.driver, err |-> got.err]
    /\ UNCHANGED <<conf, mpc, exitCode, ei, drivers, probed, probe, pi, vi, visited,
                   cur, capCall, opCall, calls, pods, objs, writes, b>>

\* The owner references an object of the cluster can carry.
OwnerRefs ==
    {Ref("ReplicaSet", n) : n \in ReplicaSets}
        \cup {Ref("Deployment", "app1"), Ref("StatefulSet", "db"),
              Ref("DaemonSet", "ds"), Ref("Job", "batch")}

\* c.findTopOwner(namespace, pod.OwnerReferences)
OwnerChainCall ==
    /\ fnCall = NoFnCall
    /\ \E ownerRefs \in SeqsUpTo(OwnerRefs, MaxRefs), avail \in SUBSET ReplicaSets :
          LET top == findTopOwner(ownerRefs, avail) IN
          fnCall' = [fn |-> "findTopOwner", ownerRefs |-> ownerRefs, avail |-> avail,
                     name |-> top.name, kind |-> top.kind, err |-> top.err]
    /\ UNCHANGED <<conf, mpc, exitCode, ei, drivers, probed, probe, pi, vi, visited,
                   cur, capCall, opCall, calls, pods, objs, writes, b>>

\* The process is in the remediation loop, between two volumes.
InitCalls ==
    /\ conf = [NodeName |-> <<"minikube">>, Endpoint |-> <<EndpointA, Comma, EndpointB>>]
    /\ mpc = "loop"
    /\ exitCode = -1
    /\ ei = 3
    /\ drivers = Registry
    /\ probed = DOMAIN Registry
    /\ probe = NoProbe
    /\ pi = 1
    /\ vi = 1
    /\ visited = <<>>
    /\ cur = NoCur
    /\ capCall = NoCapCall
    /\ fnCall = NoFnCall
    /\ opCall = NoOpCall
    /\ calls = <<>>
    /\ pods = PodNames
    /\ objs = [owner \in OwnerNames |-> [spec |-> 1, status |-> 1, rv |-> 1]]
    /\ writes = 0
    /\ b = [r \in Instances |-> Idle]

NextCalls ==
    \/ ResolverCall
    \/ OwnerChainCall

SpecCalls == InitCalls /\ [][NextCalls]_vars

----------------------------------------------------------------------------
(* One invocation of ScaleOwner against a cluster that works against it:  *)
(* main has entered the scaling function of the pod's controller, and      *)
(* another client writes the object whenever the function holds a fresh    *)
(* copy of it, so that its next Update conflicts.                          *)

\* Another client writes the object (a label, an annotation) right after
\* a scaling function has read it: the copy the function holds is stale.
Contend(owner) ==
    /\ \E r \in Instances :
          /\ b[r].name = owner
          /\ b[r].pc \in {"scaledown", "wait", "revert", "restore"}
          /\ b[r].rv = objs[owner].rv
    /\ objs' = [objs EXCEPT ![owner].rv = @ + 1]
    /\ UNCHANGED <<otherVars, writes>>

\* main is inside ScaleOwner for the first volume of pod web (of the
\* Deployment) or of pod db (the StatefulSet).
InitRetry ==
    /\ conf = [NodeName |-> <<"minikube">>, Endpoint |-> <<EndpointA, Comma, EndpointB>>]
    /\ mpc = "scaling"
    /\ exitCode = -1
    /\ ei = 3
    /\ drivers = Registry
    /\ probed = DOMAIN Registry
    /\ probe = NoProbe
    /\ pi \in {1, 2}
    /\ vi = 1
    /\ visited = IF pi = 1 THEN << <<1, 1>> >>
                 ELSE << <<1, 1>>, <<1, 2>>, <<1, 3>>, <<2, 1>> >>
    /\ cur = [driver |-> "csi.example.com", volcond |-> "true", stage |-> "true"]
    /\ capCall = NoCapCall
    /\ fnCall = NoFnCall
    /\ opCall = NoOpCall
    /\ calls = <<>>
    /\ pods = PodNames
    /\ objs \in {[owner \in OwnerNames |-> [spec |-> n, status |-> n, rv |-> 1]] :
                    n \in 0..MaxReplicas}
    /\ writes = 0
    /\ b = [r \in Instances |->
               IF r = "ctl"
               THEN LET top == findTopOwner(PodOwnerRefs[podName], ReplicaSets)
                    IN  Entered(top.name, top.kind, 0)
               ELSE Idle]

\* The steps of ScaleOwner: the calls of the scaling function, and its
\* return to main.
ScaleOwnerSteps ==
    \/ \E r \in Instances : BounceGet(r)
    \/ \E r \in Instances : BounceScaleDown(r)
    \/ \E r \in Instances : BouncePoll(r)
    \/ \E r \in Instances : BounceRevert(r)
    \/ \E r \in Instances : BounceRestore(r)
    \/ ScaleOwnerReturn

NextRetry ==
    \/ ScaleOwnerSteps
    \/ \E owner \in OwnerNames : Reconcile(owner)
    \/ \E owner \in OwnerNames : Contend(owner)

\* The API server answers every call, so the function takes its next
\* step; nothing is assumed of the controller or of the other client.
SpecRetry == InitRetry /\ [][NextRetry]_vars /\ WF_vars(ScaleOwnerSteps)

----------------------------------------------------------------------------
(* Properties. *)

\* The Update calls, by position in the history, made by the given steps
\* of a scaling function.
UpdateCalls(steps) ==
    {k \in 1..Len(calls) : calls[k].op = "update" /\ calls[k].step \in steps}

AllSteps == {"scaledown", "revert", "restore"}

\* err wraps e: e is the tail of err's chain.
Wraps(err, e) == \E n \in 1..(Len(err) + 1) : SubSeq(err, n, Len(err)) = e

\* C1: when a bounce has returned, the controller's desired replica count
\* is the one it had before the run, or the run returned an error and a
\* revert or restore update of the run had failed.
C1_NeverLeftAtBouncedValue ==
    \A r \in Instances :
        b[r].pc = "return" =>
            \/ objs[b[r].name].spec = b[r].before
            \/ /\ b[r].ret # NilErr
               /\ \E k \in UpdateCalls({"revert", "restore"}) : calls[k].err # NilErr

\* C2: when a bounce has returned success, the controller's desired
\* replica count is the one it had before the run.
C2_SuccessRestoresCount ==
    \A r \in Instances :
        (b[r].pc = "return" /\ b[r].ret = NilErr) =>
            objs[b[r].name].spec = b[r].before

\* C3: when the wait for quiesce has failed a revert update with the
\* recorded original count is made, and when a bounce has returned after a
\* revert update that succeeded, the desired replica count is the one the
\* controller had before the run.
C3_RevertRestoresCount ==
    \A r \in Instances :
        /\ b[r].waitErr # NilErr =>
              \/ b[r].pc = "revert"
              \/ /\ calls # <<>>
                 /\ calls[Len(calls)].step = "revert"
                 /\ calls[Len(calls)].value = b[r].originalReplicas
        /\ b[r].pc = "return" =>
              \A k \in UpdateCalls({"revert"}) :
                  calls[k].err = NilErr => objs[b[r].name].spec = b[r].before

\* C4: when a bounce has returned, a revert update that succeeded means
\* the returned error wraps the error of the wait, and a revert update
\* that failed means the returned error is the revert failure wrapping the
\* update's error.
C4_ErrorIdentifiesOutcome ==
    \A r \in Instances :
        b[r].pc = "return" =>
            \A k \in UpdateCalls({"revert"}) :
                IF calls[k].err = NilErr
                THEN b[r].waitErr # NilErr /\ Wraps(b[r].ret, b[r].waitErr)
                ELSE b[r].ret = Wrap("failed to revert changes", calls[k].err)

\* C5: a bounce that has returned success has applied, after each update
\* that met a conflict, an update with the same replica count, and has
\* applied the restore of the count the controller had before the run; a
\* bounce that has returned a conflict error has used up its retries.
C5_NoUpdateDropped ==
    \A r \in Instances :
        b[r].pc = "return" =>
            /\ b[r].ret = NilErr =>
                  /\ \A k \in UpdateCalls(AllSteps) :
                        IsConflict(calls[k].err) =>
                            \E j \in UpdateCalls(AllSteps) :
                                /\ j > k
                                /\ calls[j].value = calls[k].value
                                /\ calls[j].err = NilErr
                  /\ \E k \in UpdateCalls({"restore"}) :
                        calls[k].value = b[r].before /\ calls[k].err = NilErr
            /\ IsConflict(b[r].ret) => b[r].attempt = RetrySteps

IsUpdate(c) == c.op = "update"
IsDelete(c) == c.op = "delete"
IsApplied(c) == c.op = "quiesced" \/ (c.op = "update" /\ c.err = NilErr)

\* The stage/unstage query of the current pair answered false and the
\* operator it chose has returned.
RestartChosen == cur.stage = "false" /\ mpc # "restart"

\* RestartPod's reads succeeded: it fetched the pod and walked its owner chain.
RestartPodReadsOk ==
    opCall.err = NilErr
        \/ opCall.err[1] \notin {"failed to get pod", "failed to find top owner"}

\* The pod's owner chain, as the cluster holds it, ends in an owner.
HasOwner(pod) == findTopOwner(PodOwnerRefs[pod], ReplicaSets).name # ""

\* The pod of the pair the loop body was last entered for.
LastPod == Metrics[visited[Len(visited)][1]].name

C7_ScaleDownQuiesceRestore ==
    (b["ctl"].pc = "return" /\ b["ctl"].kind = "Deployment" /\ b["ctl"].ret = NilErr) =>
        /\ SelectSeq(calls, IsApplied) =
              << Call("update", "scaledown", b["ctl"].name, 0, NilErr),
                 Call("quiesced", "wait", b["ctl"].name, 0, NilErr),
                 Call("update", "restore", b["ctl"].name, b["ctl"].before, NilErr) >>
        /\ SelectSeq(calls, IsDelete) = <<>>

\* C8: a pod delete or a replica-count update is made for a pair only when
\* the volume has a claim, its driver resolved, the driver is in the
\* registry and both capability queries returned without error; in every
\* other case nothing is called for the pair and the loop is at the next
\* volume.
C8_MutationOnlyAfterQueries ==
    /\ calls # <<>> =>
          /\ visited # <<>>
          /\ Metrics[visited[Len(visited)][1]].volumes[visited[Len(visited)][2]] # Nil
          /\ cur.driver # ""
          /\ cur.driver \in DOMAIN drivers
          /\ cur.volcond \in {"true", "false"}
          /\ cur.stage \in {"true", "false"}
    /\ (/\ visited # <<>>
        /\ \/ Metrics[visited[Len(visited)][1]].volumes[visited[Len(visited)][2]] = Nil
           \/ cur.driver = ""
           \/ cur.driver \notin DOMAIN drivers
           \/ cur.volcond = "error"
           \/ cur.stage = "error") =>
          /\ calls = <<>>
          /\ opCall = NoOpCall
          /\ mpc \in {"loop", "done"}
          /\ <<pi, vi>> # visited[Len(visited)]

C8_Witness ==
    /\ cur.driver \in DOMAIN drivers
    /\ cur.stage = "true"
    /\ \E k \in UpdateCalls(AllSteps) : calls[k].err = NilErr

\* The (i, j) pairs of the metrics from pod i, volume j on, in order.
RECURSIVE PairsFrom(_, _)
PairsFrom(i, j) ==
    IF i > Len(Metrics) THEN <<>>
    ELSE IF j > Len(Metrics[i].volumes) THEN PairsFrom(i + 1, 1)
    ELSE << <<i, j>> >> \o PairsFrom(i, j + 1)

AllPairs == PairsFrom(1, 1)

IsPrefix(p, q) == Len(p) <= Len(q) /\ SubSeq(q, 1, Len(p)) = p

\* C9: the pairs the loop body is entered for are the pairs of the metrics
\* in order, each once; once the loop has started the process does not
\* exit before the pass is over, and the pass comes to its end with every
\* pair visited.
C9_EveryPairVisitedOnce ==
    /\ [](IsPrefix(visited, AllPairs))
    /\ [](mpc = "loop" => [](mpc # "exited"))
    /\ [](mpc = "loop" => <>(mpc = "done" /\ exitCode = 0 /\ visited = AllPairs))

C9_Witness ==
    /\ mpc = "done"
    /\ visited = AllPairs
    /\ opCall.op = "ScaleOwner"
    /\ opCall.err # NilErr

\* C10: a capability query that failed returns false with the error; one
\* that was answered returns no error, and true exactly when the list has
\* an entry that is not nil, has an Rpc, and is of the type asked for.
C10_CapabilityPredicates ==
    capCall.type # "" =>
        IF capCall.resp.err # NilErr
        THEN capCall.ok = FALSE /\ capCall.err # NilErr
        ELSE /\ capCall.err = NilErr
             /\ capCall.ok <=>
                   \E k \in 1..Len(capCall.resp.caps) :
                       /\ ~capCall.resp.caps[k].isNil
                       /\ capCall.resp.caps[k].rpc = capCall.type

C10_Witness ==
    /\ capCall.type = CapStageUnstage
    /\ capCall.ok
    /\ capCall.resp.caps =
          << [isNil |-> TRUE, rpc |-> Nil], [isNil |-> FALSE, rpc |-> CapStageUnstage] >>

\* C11: the driver resolver returns the current-format provisioner
\* annotation of the claim when it is set, whatever the legacy annotation
\* and without reading the volume; else the legacy annotation when it is
\* set; else the CSI driver of the bound volume, an error when the volume
\* has no CSI source; and an error when the claim or the volume cannot be
\* fetched.
C11_ResolverPrecedence ==
    fnCall.fn = "GetDriverName" =>
        LET pvc == PVCs[fnCall.pvcName]
            pv == PVs[pvc.volumeName]
        IN  IF ~fnCall.pvcOk THEN fnCall.err # NilErr
            ELSE IF pvc.ga # "" THEN fnCall.driver = pvc.ga /\ fnCall.err = NilErr
            ELSE IF pvc.beta # "" THEN fnCall.driver = pvc.beta /\ fnCall.err = NilErr
            ELSE IF ~fnCall.pvOk THEN fnCall.err # NilErr
            ELSE IF pv.csi = Nil THEN fnCall.err = <<"PV is not a CSI volume">>
            ELSE fnCall.driver = pv.csi /\ fnCall.err = NilErr

\* The reference after e in the chain is read: e is a ReplicaSet the API
\* server returns and it has owner references.
Followed(e, avail) ==
    e.Kind = "ReplicaSet" /\ e.Name \in avail /\ RSOwnerRefs[e.Name] # <<>>

\* The references the chain can pass through, from a list's first one.
ChainRefs(ownerRefs) ==
    {ownerRefs[1]} \cup {RSOwnerRefs[n][1] : n \in {m \in ReplicaSets : RSOwnerRefs[m] # <<>>}}

\* The references of the chain: the least set that has the first reference
\* of the list and, with each followed ReplicaSet, its first reference.
Chain(ownerRefs, avail) ==
    LET Closed(S) ==
            /\ ownerRefs[1] \in S
            /\ \A e \in S : Followed(e, avail) => RSOwnerRefs[e.Name][1] \in S
    IN  {e \in ChainRefs(ownerRefs) :
            \A S \in SUBSET ChainRefs(ownerRefs) : Closed(S) => e \in S}

\* C12: findTopOwner returns the name and kind of the first owner that is
\* not a ReplicaSet on the chain of first owner references; an empty list,
\* at the pod or at a ReplicaSet, gives ("", "") and no error, and a
\* ReplicaSet that cannot be fetched gives an error.
C12_TopOwnerOfChain ==
    fnCall.fn = "findTopOwner" =>
        IF fnCall.ownerRefs = <<>>
        THEN fnCall.name = "" /\ fnCall.kind = "" /\ fnCall.err = NilErr
        ELSE \E e \in Chain(fnCall.ownerRefs, fnCall.avail) :
                /\ ~Followed(e, fnCall.avail)
                /\ IF e.Kind # "ReplicaSet"
                   THEN fnCall.name = e.Name /\ fnCall.kind = e.Kind /\ fnCall.err = NilErr
                   ELSE IF e.Name \notin fnCall.avail
                   THEN fnCall.name = "" /\ fnCall.kind = "" /\ fnCall.err # NilErr
                   ELSE fnCall.name = "" /\ fnCall.kind = "" /\ fnCall.err = NilErr

C12_Witness ==
    /\ fnCall.fn = "findTopOwner"
    /\ fnCall.ownerRefs = <<Ref("ReplicaSet", "rs4"), Ref("Job", "batch")>>
    /\ fnCall.avail = ReplicaSets
    /\ fnCall.name = "app1"
    /\ fnCall.kind = "Deployment"
    /\ fnCall.err = NilErr

\* The step is RestartPod called for the current pair and returning.
RestartPodStep == mpc = "restart" /\ mpc' = "loop"

\* The step issued the Delete of the pod.
DeleteIssued ==
    /\ Len(calls') = Len(calls) + 1
    /\ calls'[Len(calls')].op = "delete"
    /\ calls'[Len(calls')].target = podName

\* C13: RestartPod issues the Delete only of a pod that exists and whose
\* owner chain ends in a named owner; for a pod that is absent or has no
\* owner, and whenever it issues no Delete, it returns an error; it returns
\* nil only after a Delete that succeeded, and a Delete that failed is
\* returned wrapped.
C13_DeleteOnlyWithOwner ==
    [][RestartPodStep =>
          /\ opCall'.op = "RestartPod"
          /\ DeleteIssued \/ calls' = calls
          /\ DeleteIssued => podName \in pods /\ HasOwner(podName)
          /\ (podName \notin pods \/ ~HasOwner(podName)) =>
                 calls' = calls /\ opCall'.err # NilErr
          /\ calls' = calls => opCall'.err # NilErr /\ pods' = pods
          /\ DeleteIssued =>
                 LET err == calls'[Len(calls')].err IN
                 /\ opCall'.err = err
                 /\ err # NilErr => err[1] = "failed to delete pod"
                 /\ pods' = IF err = NilErr THEN pods \ {podName} ELSE pods]_vars

C13_Witness ==
    /\ opCall = [op |-> "RestartPod", err |-> <<"no owner found">>]
    /\ LastPod = "solo"
    /\ calls = <<>>
    /\ "solo" \in pods

\* The kind at the top of the pod's owner chain, as the cluster holds it.
TopKind(pod) == findTopOwner(PodOwnerRefs[pod], ReplicaSets).kind

\* C14: ScaleOwner called on a pod whose top owner is no Deployment and no
\* StatefulSet returns an error, the unsupported-owner-kind error of that
\* kind unless a Get of the pod or of a ReplicaSet failed, and makes no
\* Update: no scaling function is entered and no object is written.
C14_UnsupportedKindNoUpdate ==
    [][(mpc = "scale" /\ mpc' # "scale"
            /\ TopKind(podName) \notin {"Deployment", "StatefulSet"}) =>
          /\ mpc' = "loop"
          /\ opCall'.op = "ScaleOwner"
          /\ opCall'.err # NilErr
          /\ \/ opCall'.err = <<"unsupported owner kind", TopKind(podName)>>
             \/ opCall'.err[1] \in {"failed to get pod", "failed to find top owner"}
          /\ podName \in pods /\ PodOwnerRefs[podName] \in {<<>>, <<Ref("DaemonSet", "ds")>>}
                => opCall'.err[1] \in {"unsupported owner kind", "failed to get pod"}
          /\ calls' = calls
          /\ objs' = objs
          /\ b' = b]_vars

C14_Witness ==
    /\ opCall = [op |-> "ScaleOwner", err |-> <<"unsupported owner kind", "Rollout">>]
    /\ LastPod = "task"
    /\ calls = <<>>
    /\ \A r \in Instances : b[r].pc = "idle"

\* C15: Identify never returns an empty driver name without an error: no
\* entry of the registry is keyed by the empty string.
C15_NoEmptyDriverName == "" \notin DOMAIN drivers

\* The process is in, or past, the remediation loop.
Remediating ==
    mpc \in {"loop", "volcond", "stage", "restart", "scale", "scaling", "done"}

\* No capability was queried, no operator called, and the cluster is as
\* it was when the process started.
NothingDone ==
    /\ visited = <<>>
    /\ cur = NoCur
    /\ opCall = NoOpCall
    /\ calls = <<>>
    /\ pods = PodNames
    /\ \A owner \in OwnerNames : objs[owner].rv = 1
    /\ \A r \in Instances : b[r].pc = "idle"

\* C16: each step of the registration loop either registers the client of
\* its endpoint under the name Identify returned or ends the process with
\* status 1; the remediation loop is reached only after the step of every
\* endpoint; a process that has exited has a non-zero status and has
\* queried, deleted and updated nothing; and with an empty endpoint flag
\* the process never reaches the loop and exits.
C16_RemediationAfterRegistration ==
    /\ [][mpc = "register" =>
             \/ mpc' = "exited" /\ exitCode' = 1 /\ drivers' = drivers
             \/ /\ mpc' \in {"register", "health"}
                /\ ei' = ei + 1
                /\ \E n \in DOMAIN drivers' : drivers'[n] = endpoints[ei]]_vars
    /\ [](Remediating => ei = Len(endpoints) + 1 /\ DOMAIN drivers # {})
    /\ [](mpc = "exited" => exitCode > 0 /\ NothingDone)
    /\ [](conf.Endpoint = <<>> => ~Remediating /\ mpc # "health")
    /\ (conf.Endpoint = <<>> ~> mpc = "exited")

C16_Witness ==
    /\ mpc = "exited"
    /\ exitCode = 1
    /\ ei = 2
    /\ DOMAIN drivers = {"csi.example.com"}
    /\ NothingDone

C18_StatefulSetAsDeployment ==
    [][(b["ctl"].pc = "wait" /\ b'["ctl"] # b["ctl"]) =>
          LET l == b["ctl"]
              after == b'["ctl"]
              observed == objs[l.name].status
          IN  \/ after.pc = "revert" /\ after.waitErr = ErrServer
              \/ /\ observed = 0
                 /\ after = [l EXCEPT !.pc = "restore"]
              \/ /\ observed # 0
                 /\ after.polls = l.polls + 1
                 /\ \/ after.pc = "wait" /\ after.polls < MaxPolls
                    \/ /\ after.pc = "revert"
                       /\ after.waitErr = ErrTimeout
                       /\ after.polls = MaxPolls]_vars

\* The desired replica count of the shared Deployment before either run
\* began: the count the first run to enter found.
CountBefore ==
    LET entered == {r \in Instances : b[r].pc # "idle"}
    IN  CHOOSE n \in {b[r].before : r \in entered} :
            \A r \in entered : b[r].before <= n

\* C19: when two runs on the same Deployment interleave, a run on its
\* first attempt has recorded as original count the count the Deployment
\* had before either run began, and when both runs have returned success
\* the desired replica count is that count.
C19_InterleavedBouncesRestore ==
    /\ \A r \in Instances :
          (b[r].attempt = 1 /\ b[r].pc \in {"scaledown", "wait", "revert", "restore"}) =>
              b[r].originalReplicas = CountBefore
    /\ (\A r \in Instances : b[r].pc = "return" /\ b[r].ret = NilErr) =>
          objs[Shared].spec = CountBefore

\* C20: a process that was shut down while ScaleOwner waited for the
\* replicas to be zero has reverted the scale-down: the desired replica
\* count of the controller is the one it had before the run.
C20_ShutdownReverts ==
    (mpc = "exited" /\ b["ctl"].pc = "wait") =>
        objs[b["ctl"].name].spec = b["ctl"].before

\* C21: every invocation of ScaleOwner terminates. The function is called
\* at most RetrySteps times and a wait checks at most MaxPolls times; a
\* wait ends only at a check that observed zero replicas (the restore
\* follows), at a check that failed or at the deadline (the revert follows
\* with the wait's error); and a ScaleOwner that was entered returns, also
\* when the observed count never reaches zero and every Update conflicts.
C21_ScaleOwnerTerminates ==
    /\ [](\A r \in Instances : b[r].attempt <= RetrySteps /\ b[r].polls <= MaxPolls)
    /\ [][\A r \in Instances :
            (b[r].pc = "wait" /\ b'[r].pc # "wait") =>
                \/ b'[r].pc = "restore" /\ objs[b[r].name].status = 0
                \/ /\ b'[r].pc = "revert"
                   /\ b'[r].waitErr # NilErr
                   /\ b'[r].waitErr = ErrTimeout =>
                         (objs[b[r].name].status # 0 /\ b'[r].polls = MaxPolls)]_vars
    /\ (b["ctl"].pc # "idle") ~> (b["ctl"].pc = "return")
    /\ (mpc = "scaling") ~> (mpc # "scaling" /\ opCall.op = "ScaleOwner")

\* The retry is used up on a Deployment whose replicas never went away:
\* the first wait timed out, the revert and every later Update
\* conflicted, and the last conflict is returned.
C21_Witness ==
    LET l == b["ctl"] IN
    /\ l.pc = "return"
    /\ l.kind = "Deployment"
    /\ l.attempt = RetrySteps
    /\ IsConflict(l.ret)
    /\ objs[l.name].status # 0
    /\ \E k \in 1..Len(calls) : calls[k].step = "revert"
    /\ \A k \in 2..Len(calls) : IsConflict(calls[k].err)

====
